---- MODULE Spec2Model ----
(***************************************************************************)
(* Movies API (src/main.py, src/schemas.py): the request models MovieIn,   *)
(* MovieUpdate and Movie, the output mapping serialize_movie, and the      *)
(* handlers add_movie, update_movie, delete_movie and list_movies over the *)
(* "movie" collection of the document store.                               *)
(*                                                                         *)
(* JSON values are records [k, n]: k is the kind and n the one number that *)
(* tells two values of a kind apart.  A string is n copies of the letter   *)
(* "a" (so n is its length), a number is n, a list is n copies of a genre. *)
(***************************************************************************)
EXTENDS Integers, Sequences, FiniteSets, TLC

VARIABLES db, nextId, last, pc, job

vars == <<db, nextId, last, pc, job>>

-----------------------------------------------------------------------------
(* Bounds of the model. *)

\* Documents the collection holds at one time.
MaxDocs == 1

(* Program constants. *)
MinTitle == 1
MaxTitle == 200
MaxDescription == 2000
MinRating == 0
MaxRating == 10
\* bson.ObjectId accepts a string of exactly 24 hexadecimal digits.
OidLen == 24

-----------------------------------------------------------------------------
(* JSON values. *)

Absent == [k |-> "absent", n |-> 0]
Null == [k |-> "null", n |-> 0]
Str(n) == [k |-> "str", n |-> n]
Num(n) == [k |-> "num", n |-> n]
List(n) == [k |-> "list", n |-> n]

Fields == {"title", "description", "rating", "poster_url", "genres"}

\* The fields a payload carries (pydantic's model_fields_set).
Present(p) == {f \in Fields : p[f] # Absent}

-----------------------------------------------------------------------------
(* Request and schema models. *)

\* A str field with min_length / max_length.
StrBetween(v, lo, hi) == v.k = "str" /\ lo <= v.n /\ v.n <= hi

\* A float field with ge / le.
FloatBetween(v, lo, hi) == v.k = "num" /\ lo <= v.n /\ v.n <= hi

\* MovieIn: title and rating required, the rest optional.
MovieInField(f, v) ==
    CASE f = "title" -> StrBetween(v, MinTitle, MaxTitle)
      [] f = "description" -> v \in {Absent, Null} \/ StrBetween(v, 0, MaxDescription)
      [] f = "rating" -> FloatBetween(v, MinRating, MaxRating)
      [] f = "poster_url" -> v \in {Absent, Null} \/ v.k = "str"
      [] f = "genres" -> v \in {Absent, Null} \/ v.k = "list"

MovieInValid(p) == \A f \in Fields : MovieInField(f, p[f])

\* schemas.Movie: the storage schema, applied to MovieIn's dump.
MovieSchemaField(f, v) ==
    CASE f = "title" -> StrBetween(v, MinTitle, MaxTitle)
      [] f = "description" -> v \in {Absent, Null} \/ StrBetween(v, 0, MaxDescription)
      [] f = "rating" -> FloatBetween(v, MinRating, MaxRating)
      [] f = "poster_url" -> v \in {Absent, Null} \/ v.k = "str"
      [] f = "genres" -> v \in {Absent, Null} \/ v.k = "list"

MovieSchemaValid(p) == \A f \in Fields : MovieSchemaField(f, p[f])

\* MovieUpdate: every field is Optional with default None, so an explicit
\* null passes for each of them; the constraints apply to non-null values.
MovieUpdateField(f, v) ==
    CASE f = "title" -> v \in {Absent, Null} \/ StrBetween(v, MinTitle, MaxTitle)
      [] f = "description" -> v \in {Absent, Null} \/ StrBetween(v, 0, MaxDescription)
      [] f = "rating" -> v \in {Absent, Null} \/ FloatBetween(v, MinRating, MaxRating)
      [] f = "poster_url" -> v \in {Absent, Null} \/ v.k = "str"
      [] f = "genres" -> v \in {Absent, Null} \/ v.k = "list"

MovieUpdateValid(p) == \A f \in Fields : MovieUpdateField(f, p[f])

\* MovieIn.model_dump(): every field, defaults filled in.
ModelDump(p) ==
    [f \in Fields |->
        IF p[f] # Absent THEN p[f]
        ELSE IF f = "description" THEN Str(0) ELSE Null]

\* model_dump() without exclude_unset: every field, None where unset.
UpdateDataAll(p) == [f \in Fields |-> IF p[f] = Absent THEN Null ELSE p[f]]

\* MovieUpdate.model_dump(exclude_unset=True): the fields the payload carries.
UpdateData(p) == [f \in Present(p) |-> p[f]]

\* The emptiness test left out.
NoFieldsNever(data) == FALSE

\* "if not update_data".
NoFields(data) == DOMAIN data = {}

-----------------------------------------------------------------------------
(* Identifiers. *)

\* A path identifier is n copies of the character c.
RawId(c, n) == [c |-> c, n |-> n]

HexDigits == {"a", "b", "c", "A"}

Lower(c) == IF c = "A" THEN "a" ELSE c

\* The length test left out.
ObjectIdAnyLength(raw) == raw.c \in HexDigits

\* ObjectId(movie_id) raises unless the string is 24 hexadecimal digits.
ObjectIdValid(raw) == raw.n = OidLen /\ raw.c \in HexDigits

\* The parsed identifier: hexadecimal digits are read without regard to case.
ObjectId(raw) == Lower(raw.c)

\* str(ObjectId): 24 lower-case hexadecimal digits.
OidStr(oid) == RawId(oid, OidLen)

\* The identifiers the storage engine hands out, in order.
OidSeq == <<"a", "b">>

-----------------------------------------------------------------------------
(* Storage engine: the "movie" collection maps identifiers to documents. *)

Extend(d, oid, doc) == [o \in DOMAIN d \cup {oid} |-> IF o = oid THEN doc ELSE d[o]]

\* create_document("movie", data): insert_one under a fresh identifier.
CreateDocument(d, oid, data) == Extend(d, oid, data)

\* update_one with upsert=True: a document is made when none matches.
UpdateOneUpsert(d, oid, data) ==
    Extend(d, oid,
        [f \in Fields |->
            IF f \in DOMAIN data THEN data[f]
            ELSE IF oid \in DOMAIN d THEN d[oid][f] ELSE Absent])

\* replace_one: the matched document becomes the data.
UpdateOneReplace(d, oid, data) ==
    IF oid \notin DOMAIN d THEN d
    ELSE [d EXCEPT ![oid] =
            [f \in Fields |-> IF f \in DOMAIN data THEN data[f] ELSE Absent]]

\* update_one({"_id": oid}, {"$set": data}): no document is made when none
\* matches; a matched document keeps every key that data does not name.
UpdateOne(d, oid, data) ==
    IF oid \notin DOMAIN d THEN d
    ELSE [d EXCEPT ![oid] =
            [f \in Fields |-> IF f \in DOMAIN data THEN data[f] ELSE d[oid][f]]]

\* delete_one({"_id": oid}).
DeleteOne(d, oid) == [o \in DOMAIN d \ {oid} |-> d[o]]

\* The count taken for 1 whatever matched.
DeletedCountMatched(d, oid) == 1

\* result.deleted_count
DeletedCount(d, oid) == IF oid \in DOMAIN d THEN 1 ELSE 0

\* The storage calls of each handler that gets past validation.
AddCalls == <<"insert_one", "find_one">>

UpdateCallsRetried == <<"update_one", "update_one", "find_one">>

UpdateCalls == <<"update_one", "find_one">>

DeleteCalls == <<"delete_one">>

-----------------------------------------------------------------------------
(* Output mapping. *)

\* float(x) raises TypeError on None.
FloatOk(v) == v.k = "num"

\* doc.get(key) or default: a stored null is defaulted like a missing key.
serialize_movie_falsy(doc) ==
    [f \in Fields |->
        IF doc[f] \notin {Absent, Null} THEN doc[f]
        ELSE CASE f \in {"title", "description"} -> Str(0)
               [] f = "rating" -> Num(0)
               [] OTHER -> Null]

\* serialize_movie: doc.get(key, default) defaults only a missing key.
serialize_movie(doc) ==
    [f \in Fields |->
        IF doc[f] # Absent THEN doc[f]
        ELSE CASE f \in {"title", "description"} -> Str(0)
               [] f = "rating" -> Num(0)
               [] OTHER -> Null]

\* MovieOut(**serialize_movie(doc)) succeeds: float() did not raise and the
\* mapped fields pass MovieIn's constraints.
MovieOutOk(doc) ==
    /\ FloatOk(serialize_movie(doc)["rating"])
    /\ MovieInValid(serialize_movie(doc))

-----------------------------------------------------------------------------
(* Requests: the payloads and path identifiers the handlers are given. *)

Empty == [f \in Fields |-> Absent]

Only(f, v) == [Empty EXCEPT ![f] = v]

\* Per field: absent, null, values on and just outside each constraint, and
\* for title and rating a value of the wrong type.
FieldValues(f) ==
    CASE f = "title" ->
            {Absent, Null, Str(MinTitle - 1), Str(MinTitle), Str(MaxTitle), Str(MaxTitle + 1),
             Num(MinTitle)}
      [] f = "description" ->
            {Absent, Null, Str(0), Str(MaxDescription), Str(MaxDescription + 1)}
      [] f = "rating" ->
            {Absent, Null, Num(MinRating - 1), Num(MinRating), Num(MaxRating), Num(MaxRating + 1),
             Str(1)}
      [] f = "poster_url" -> {Absent, Null, Str(1)}
      [] f = "genres" -> {Absent, Null, List(1)}

AltValue(f) ==
    CASE f = "title" -> Str(MaxTitle)
      [] f = "description" -> Str(MaxDescription)
      [] f = "rating" -> Num(MaxRating)
      [] f = "poster_url" -> Str(1)
      [] f = "genres" -> List(1)

\* The smallest accepted creation payload.
Minimal == [Empty EXCEPT !["title"] = Str(MinTitle), !["rating"] = Num(MinRating)]

\* One field alone; every subset of the fields; a creation payload with one
\* field varied.
Payloads ==
    UNION {{Only(f, v) : v \in FieldValues(f)} : f \in Fields}
    \cup {[f \in Fields |-> IF f \in S THEN AltValue(f) ELSE Absent] : S \in SUBSET Fields}
    \cup UNION {{[Minimal EXCEPT ![f] = v] : v \in FieldValues(f)} : f \in Fields}

\* Path identifiers: the handed-out ones, one never handed out, an upper-case
\* spelling, and malformed ones (non-hex, too short, too long).
GoodIds == {RawId("a", OidLen), RawId("b", OidLen)}
OtherIds == {RawId("c", OidLen), RawId("A", OidLen),
             RawId("g", OidLen), RawId("a", OidLen - 1), RawId("a", OidLen + 1)}
RawIds == GoodIds \cup OtherIds

\* The payloads sent along with the identifiers of OtherIds: none of the
\* fields, an accepted one, a rejected one.
FewPayloads == {Empty, Only("rating", Num(MaxRating)), Only("rating", Num(MaxRating + 1))}

UpdateRequests == (GoodIds \X Payloads) \cup (OtherIds \X FewPayloads)

-----------------------------------------------------------------------------
(* Handlers.  The server takes one request at a time: last is the request  *)
(* being answered and its response, or NoRequest once the response is out. *)

NoId == RawId("", 0)

Response(op, id, payload, status, detail, outId, out, calls) ==
    [op |-> op, id |-> id, payload |-> payload, status |-> status, detail |-> detail,
     outId |-> outId, out |-> out, calls |-> calls]

NoRequest == Response("none", NoId, Empty, 0, "", NoId, Empty, << >>)

Workers == {1, 2}

Init ==
    /\ db = << >>
    /\ nextId = 1
    /\ last = NoRequest
    /\ pc = [w \in Workers |-> "idle"]
    /\ job = [w \in Workers |-> NoRequest]

\* POST /api/movies
add_movie(p) ==
    /\ last = NoRequest
    /\ UNCHANGED <<pc, job>>
    /\ IF ~MovieInValid(p)
       THEN /\ last' = Response("create", NoId, p, 422, "validation", NoId, Empty, << >>)
            /\ UNCHANGED <<db, nextId>>
       ELSE IF ~MovieSchemaValid(ModelDump(p))
       THEN /\ last' = Response("create", NoId, p, 500, "schema", NoId, Empty, << >>)
            /\ UNCHANGED <<db, nextId>>
       ELSE /\ nextId <= Len(OidSeq)
            /\ Cardinality(DOMAIN db) < MaxDocs
            /\ LET oid == OidSeq[nextId]
                   d2 == CreateDocument(db, oid, ModelDump(p))
               IN /\ db' = d2
                  /\ nextId' = nextId + 1
                  /\ last' = IF MovieOutOk(d2[oid])
                             THEN Response("create", NoId, p, 200, "", OidStr(oid),
                                           serialize_movie(d2[oid]), AddCalls)
                             ELSE Response("create", NoId, p, 500, "output", NoId, Empty,
                                           AddCalls)

\* DELETE /api/movies/{movie_id}
delete_movie(raw) ==
    /\ last = NoRequest
    /\ UNCHANGED <<nextId, pc, job>>
    /\ IF ~ObjectIdValid(raw)
       THEN /\ last' = Response("delete", raw, Empty, 400, "Invalid movie id", NoId, Empty, << >>)
            /\ UNCHANGED db
       ELSE LET oid == ObjectId(raw)
            IN /\ db' = DeleteOne(db, oid)
               /\ last' = IF DeletedCount(db, oid) = 0
                          THEN Response("delete", raw, Empty, 404, "Movie not found", NoId, Empty,
                                        DeleteCalls)
                          ELSE Response("delete", raw, Empty, 200, "ok", NoId, Empty,
                                        DeleteCalls)

\* PUT /api/movies/{movie_id}, up to the storage calls: the framework
\* validates the body against MovieUpdate before the handler runs, then the
\* handler parses the identifier and tests for an empty update.
UpdateRejection(raw, p) ==
    IF ~MovieUpdateValid(p)
    THEN Response("update", raw, p, 422, "validation", NoId, Empty, << >>)
    ELSE IF ~ObjectIdValid(raw)
    THEN Response("update", raw, p, 400, "Invalid movie id", NoId, Empty, << >>)
    ELSE IF NoFields(UpdateData(p))
    THEN Response("update", raw, p, 400, "No fields to update", NoId, Empty, << >>)
    ELSE NoRequest

\* find_one after the update, and the response made of it.
UpdateResponse(raw, p, d) ==
    LET oid == ObjectId(raw)
    IN IF oid \notin DOMAIN d
       THEN Response("update", raw, p, 404, "Movie not found", NoId, Empty, UpdateCalls)
       ELSE IF MovieOutOk(d[oid])
       THEN Response("update", raw, p, 200, "", OidStr(oid), serialize_movie(d[oid]),
                     UpdateCalls)
       ELSE Response("update", raw, p, 500, "output", NoId, Empty, UpdateCalls)

update_movie(raw, p) ==
    /\ last = NoRequest
    /\ UNCHANGED <<nextId, pc, job>>
    /\ IF UpdateRejection(raw, p) # NoRequest
       THEN /\ last' = UpdateRejection(raw, p)
            /\ UNCHANGED db
       ELSE /\ db' = UpdateOne(db, ObjectId(raw), UpdateData(p))
            /\ last' = UpdateResponse(raw, p, db')

\* GET /api/movies
list_movies ==
    /\ last = NoRequest
    /\ UNCHANGED <<db, nextId, pc, job>>
    /\ last' = IF \A o \in DOMAIN db : MovieOutOk(db[o])
               THEN Response("list", NoId, Empty, 200, "", NoId, Empty, <<"find">>)
               ELSE Response("list", NoId, Empty, 500, "output", NoId, Empty, <<"find">>)

AddMovie == \E p \in Payloads : add_movie(p)
DeleteMovie == \E raw \in RawIds : delete_movie(raw)
UpdateMovie == \E r \in UpdateRequests : update_movie(r[1], r[2])
ListMovies == list_movies

\* The response is sent; the server is ready for the next request.
Respond ==
    /\ last # NoRequest
    /\ last' = NoRequest
    /\ UNCHANGED <<db, nextId, pc, job>>

Next == AddMovie \/ DeleteMovie \/ UpdateMovie \/ ListMovies \/ Respond

Spec == Init /\ [][Next]_vars

-----------------------------------------------------------------------------
(* Two PUT requests served at once, each by its own worker.  A worker's    *)
(* steps are the handler's storage calls: update_one, then find_one.       *)

\* The collection holds one record, made by an accepted POST.
ConcDocs == {ModelDump(Minimal), ModelDump([f \in Fields |-> AltValue(f)])}

ConcPayloads ==
    {[f \in Fields |-> IF f \in S THEN AltValue(f) ELSE Absent] : S \in SUBSET Fields}
    \cup {Only("title", Str(MinTitle)), Only("rating", Num(MinRating)),
          Only("description", Null), Only("rating", Num(MaxRating + 1))}

ConcIds == {RawId("a", OidLen), RawId("c", OidLen), RawId("g", OidLen)}

InitConc ==
    /\ \E doc \in ConcDocs : db = CreateDocument(<< >>, OidSeq[1], doc)
    /\ nextId = 2
    /\ last = NoRequest
    /\ pc = [w \in Workers |-> "idle"]
    /\ job = [w \in Workers |-> NoRequest]

\* The request arrives: body validation, ObjectId(movie_id), the empty test.
PutReceive(w) ==
    /\ pc[w] = "idle"
    /\ \E raw \in ConcIds, p \in ConcPayloads :
          IF UpdateRejection(raw, p) # NoRequest
          THEN /\ job' = [job EXCEPT ![w] = UpdateRejection(raw, p)]
               /\ pc' = [pc EXCEPT ![w] = "done"]
          ELSE /\ job' = [job EXCEPT ![w] = Response("update", raw, p, 0, "", NoId, Empty, << >>)]
               /\ pc' = [pc EXCEPT ![w] = "write"]
    /\ UNCHANGED <<db, nextId, last>>

\* db["movie"].update_one(...)
PutWrite(w) ==
    /\ pc[w] = "write"
    /\ db' = UpdateOne(db, ObjectId(job[w].id), UpdateData(job[w].payload))
    /\ pc' = [pc EXCEPT ![w] = "read"]
    /\ UNCHANGED <<nextId, last, job>>

\* db["movie"].find_one(...) and the response.
PutRead(w) ==
    /\ pc[w] = "read"
    /\ job' = [job EXCEPT ![w] = UpdateResponse(job[w].id, job[w].payload, db)]
    /\ pc' = [pc EXCEPT ![w] = "done"]
    /\ UNCHANGED <<db, nextId, last>>

NextConc == \E w \in Workers : PutReceive(w) \/ PutWrite(w) \/ PutRead(w)

SpecConc == InitConc /\ [][NextConc]_vars

-----------------------------------------------------------------------------
(* Properties.  They are stated over the request as sent (last.id,         *)
(* last.payload) and what came of it (last.status, last.out, last.calls,   *)
(* db), in terms of the specification's own notions below.                 *)

\* A well-formed native identifier: 24 hexadecimal digits.
WellFormedId(raw) == raw.n = OidLen /\ raw.c \in HexDigits

\* The record a well-formed path identifier names.
Target(raw) == Lower(raw.c)

\* A persisted record within the data model's constraints.
RecordValid(doc) ==
    /\ doc["rating"].k = "num" /\ MinRating <= doc["rating"].n /\ doc["rating"].n <= MaxRating
    /\ doc["title"].k = "str" /\ MinTitle <= doc["title"].n /\ doc["title"].n <= MaxTitle

\* The request got past identifier and payload validation.
Validated(r) ==
    CASE r.op = "create" -> MovieInValid(r.payload)
      [] r.op = "update" ->
            MovieUpdateValid(r.payload) /\ WellFormedId(r.id) /\ Present(r.payload) # {}
      [] r.op = "delete" -> WellFormedId(r.id)
      [] OTHER -> FALSE

Mutating == {"create", "update", "delete"}

\* C1: a PUT on an existing record whose accepted payload carries the
\* non-empty field set S leaves the record with the supplied value for each
\* field of S and the previous value for every other field; no other record
\* changes.
C1_PartialUpdateMerges ==
    [][(/\ last'.op = "update"
        /\ WellFormedId(last'.id)
        /\ MovieUpdateValid(last'.payload)
        /\ Present(last'.payload) # {}
        /\ Target(last'.id) \in DOMAIN db)
       => /\ DOMAIN db' = DOMAIN db
          /\ \A o \in DOMAIN db : \A f \in Fields :
                db'[o][f] = IF o = Target(last'.id) /\ f \in Present(last'.payload)
                            THEN last'.payload[f]
                            ELSE db[o][f]]_vars

\* A PUT of the rating alone has kept a title, description, poster and genres
\* that are not the defaults.
C1_Witness ==
    /\ last.op = "update"
    /\ last.status = 200
    /\ Present(last.payload) = {"rating"}
    /\ Target(last.id) \in DOMAIN db
    /\ db[Target(last.id)]["rating"] = last.payload["rating"]
    /\ db[Target(last.id)]["title"] = Str(MaxTitle)
    /\ db[Target(last.id)]["description"] = Str(MaxDescription)
    /\ db[Target(last.id)]["poster_url"] = Str(1)
    /\ db[Target(last.id)]["genres"] = List(1)

\* C2: every record of the collection has a rating that is a number in
\* [0, 10] and a title that is a string of 1 to 200 characters.
C2_PersistedRecordsValid == \A o \in DOMAIN db : RecordValid(db[o])

\* C3: a PUT payload that was applied to storage carries, for title, rating
\* and description, only values that a POST payload (other fields valid)
\* is accepted with.
C3_UpdateRulesAsCreate ==
    (last.op = "update" /\ last.calls # << >>)
    => \A f \in {"title", "rating", "description"} :
          last.payload[f] # Absent => MovieInValid([Minimal EXCEPT ![f] = last.payload[f]])

\* C4: a PUT with a well-formed identifier and no field present is answered
\* 400 "No fields to update", without a storage call, the collection
\* unchanged.
C4_NoFieldsRejected ==
    [][(last'.op = "update" /\ WellFormedId(last'.id) /\ Present(last'.payload) = {})
       => /\ last'.status = 400
          /\ last'.detail = "No fields to update"
          /\ last'.calls = << >>
          /\ db' = db]_vars

\* An empty PUT on an existing record was refused.
C4_Witness ==
    /\ last.op = "update"
    /\ Present(last.payload) = {}
    /\ last.status = 400
    /\ Target(last.id) \in DOMAIN db

C6_MissingAlways404 ==
    [][(/\ last'.op \in {"delete", "update"}
        /\ WellFormedId(last'.id)
        /\ Target(last'.id) \notin DOMAIN db
        /\ (last'.op = "update" => Present(last'.payload) # {}))
       => /\ last'.status = 404
          /\ last'.detail = "Movie not found"
          /\ db' = db]_vars

\* C6, amended: the same for a DELETE, and for a PUT whose payload has a
\* field present and passes validation.
C6_MissingIs404 ==
    [][(/\ last'.op \in {"delete", "update"}
        /\ WellFormedId(last'.id)
        /\ Target(last'.id) \notin DOMAIN db
        /\ (last'.op = "update" =>
               Present(last'.payload) # {} /\ MovieUpdateValid(last'.payload)))
       => /\ last'.status = 404
          /\ last'.detail = "Movie not found"
          /\ db' = db]_vars

\* A PUT on a well-formed identifier naming no record was answered 404 while
\* the collection held another record.
C6_Witness ==
    /\ last.op = "update"
    /\ WellFormedId(last.id)
    /\ last.status = 404
    /\ db # << >>
    /\ Target(last.id) \notin DOMAIN db

\* C7, as claimed: a validated create, update or delete issues exactly one
\* storage call.
C7_OneStorageCall ==
    (last.op \in Mutating /\ Validated(last)) => Len(last.calls) = 1

\* C7, amended: a validated create, update or delete issues exactly one
\* writing call (insert_one, update_one, delete_one); create and update then
\* read the record back with one find_one; a request that fails validation
\* issues no call.
C7_OneWriteCall ==
    last.op \in Mutating
    => last.calls = IF ~Validated(last) THEN << >>
                    ELSE CASE last.op = "create" -> <<"insert_one", "find_one">>
                           [] last.op = "update" -> <<"update_one", "find_one">>
                           [] last.op = "delete" -> <<"delete_one">>

\* A validated PUT was answered after update_one and find_one.
C7_Witness ==
    /\ last.op = "update"
    /\ Validated(last)
    /\ last.status = 200
    /\ Len(last.calls) = 2

\* C8: an accepted POST answers 200 with title, rating, description, genres
\* and poster_url equal to the input (description "" when absent, poster_url
\* and genres null when absent) and with the identifier of the new record.
C8_CreateRoundTrip ==
    (last.op = "create" /\ MovieInValid(last.payload))
    => /\ last.status = 200
       /\ \A f \in Fields :
             last.out[f] = IF last.payload[f] # Absent THEN last.payload[f]
                           ELSE IF f = "description" THEN Str(0) ELSE Null
       /\ WellFormedId(last.outId)
       /\ Target(last.outId) \in DOMAIN db

\* A POST of a title and a rating alone came back with description "".
C8_Witness ==
    /\ last.op = "create"
    /\ Present(last.payload) = {"title", "rating"}
    /\ last.status = 200
    /\ last.out["description"] = Str(0)
    /\ last.out["title"] = last.payload["title"]

\* C9: only an accepted POST adds a record, under an identifier the
\* collection does not hold; a PUT leaves the set of identifiers as it was,
\* whether or not its identifier matches a record.
C9_OnlyCreateAddsIds ==
    [][/\ (~(DOMAIN db' \subseteq DOMAIN db) => last'.op = "create" /\ last'.status = 200)
       /\ (last'.op = "create" /\ last'.status = 200
             => /\ Target(last'.outId) \notin DOMAIN db
                /\ DOMAIN db' = DOMAIN db \cup {Target(last'.outId)})
       /\ (last'.op = "update" => DOMAIN db' = DOMAIN db)]_vars

\* A validated PUT named the first identifier handed out, after its record
\* was deleted, and did not bring it back.
C9_Witness ==
    /\ last.op = "update"
    /\ Validated(last)
    /\ Target(last.id) = OidSeq[1]
    /\ nextId > 1
    /\ Target(last.id) \notin DOMAIN db

\* The worker has performed its update_one.
Wrote(w) == pc[w] = "read" \/ (pc[w] = "done" /\ job[w].calls # << >>)

\* C10: once two concurrent PUTs on the same existing record with disjoint
\* field sets have both written, the record holds the values of both.
C10_DisjointUpdatesKept ==
    \A v \in Workers, w \in Workers :
        (/\ v # w
         /\ Wrote(v) /\ Wrote(w)
         /\ Target(job[v].id) = Target(job[w].id)
         /\ Target(job[v].id) \in DOMAIN db
         /\ Present(job[v].payload) \cap Present(job[w].payload) = {})
        => \A f \in Present(job[v].payload) : db[Target(job[v].id)][f] = job[v].payload[f]

\* Both PUTs were answered 200: one set the title, the other the rating and
\* the genres.
C10_Witness ==
    /\ pc[1] = "done" /\ pc[2] = "done"
    /\ job[1].status = 200 /\ job[2].status = 200
    /\ Present(job[1].payload) = {"title"}
    /\ Present(job[2].payload) = {"rating", "genres"}
    /\ db[Target(job[1].id)]["title"] = job[1].payload["title"]

====
